---- MODULE Spec2Model ----
(***************************************************************************)
(* A model of simpledom.js: the global bindings ($, simpleDOM, noConflict), *)
(* the wrapper constructor simpleDOMEngine and the wrapper's methods, run  *)
(* against a small host document.                                          *)
(*                                                                         *)
(* JavaScript values are records [t |-> typeof, v |-> payload]; strings    *)
(* are sequences of one-character strings, so that the regular             *)
(* expressions, split and join of the source act on characters.            *)
(***************************************************************************)
EXTENDS Integers, Sequences, FiniteSets, TLC

\* Longest class attribute the class operations may build.
MaxClassLen == 4

\* Number of distinct user callbacks.
NumFns == 2

-----------------------------------------------------------------------------
(* JavaScript values *)

Undefined == [t |-> "undefined", v |-> <<>>]
Null == [t |-> "object", v |-> <<"null">>]
False == [t |-> "boolean", v |-> <<"false">>]
Str(s) == [t |-> "string", v |-> s]
Fn(name) == [t |-> "function", v |-> <<name>>]
Elem(e) == [t |-> "object", v |-> <<"element", e>>]
\* the wrapper a method was called on, as a return value
This == [t |-> "object", v |-> <<"this">>]
\* a fresh wrapper returned by the factory or by get
NewWrapper == [t |-> "object", v |-> <<"simpleDOMEngine">>]
\* the array String.prototype.match returns on success
MatchArray == [t |-> "object", v |-> <<"match">>]
\* the live collection getElementsByTagName returns
Collection(tag) == [t |-> "object", v |-> <<"HTMLCollection">> \o tag]
Throw(kind) == [t |-> "throw", v |-> <<kind>>]

typeof(x) == x.t
Thrown(x) == x.t = "throw"
Truthy(x) ==
  /\ x.t \notin {"undefined", "boolean", "throw"}
  /\ x # Null
  /\ x # Str(<<>>)

-----------------------------------------------------------------------------
(* The host document *)

Elements == {"e1", "e2", "e3"}
\* document order
DocOrder == <<"e1", "e2", "e3">>
IsElement(x) == \E e \in Elements : x = Elem(e)
ElemOf(x) == CHOOSE e \in Elements : x = Elem(e)

tagName(e) == IF e = "e3" THEN <<"p">> ELSE <<"div">>
idOf(e) == IF e = "e1" THEN <<"x">> ELSE <<>>

RECURSIVE SelectSeq2(_, _)
\* the subsequence of s whose entries are in set S, order kept
SelectSeq2(s, S) ==
  IF s = <<>> THEN <<>>
  ELSE IF Head(s) \in S THEN <<Head(s)>> \o SelectSeq2(Tail(s), S)
  ELSE SelectSeq2(Tail(s), S)

\* the elements the host's native engine matches, as a set
Matching(sel) ==
  IF sel = <<"*">> THEN Elements
  ELSE IF Len(sel) >= 1 /\ sel[1] = "#" THEN {e \in Elements : idOf(e) # <<>> /\ idOf(e) = Tail(sel)}
  ELSE {e \in Elements : tagName(e) = sel}

\* document.querySelectorAll: the matched elements in document order
querySelectorAll(sel) ==
  LET m == SelectSeq2(DocOrder, Matching(sel))
  IN [i \in 1..Len(m) |-> Elem(m[i])]

\* document.getElementById: the element or null
getElementById(id) ==
  LET m == SelectSeq2(DocOrder, {e \in Elements : idOf(e) # <<>> /\ idOf(e) = id})
  IN IF m = <<>> THEN Null ELSE Elem(m[1])

\* document.getElementsByTagName: one live collection object
getElementsByTagName(tag) == Collection(tag)

-----------------------------------------------------------------------------
(* Strings *)

\* String.prototype.indexOf(c) === 0 for a one-character c
indexOfIsZero(s, c) == Len(s) >= 1 /\ s[1] = c

RECURSIVE replaceFirst(_, _)
\* String.prototype.replace(c, '') for a one-character c: drops the first c
replaceFirst(s, c) ==
  IF s = <<>> THEN <<>>
  ELSE IF Head(s) = c THEN Tail(s)
  ELSE <<Head(s)>> \o replaceFirst(Tail(s), c)

RECURSIVE split(_)
\* String.prototype.split(' '): the pieces between single spaces
split(s) ==
  IF \A i \in 1..Len(s) : s[i] # " " THEN <<s>>
  ELSE LET p == CHOOSE i \in 1..Len(s) : s[i] = " " /\ \A j \in 1..(i-1) : s[j] # " "
       IN <<SubSeq(s, 1, p - 1)>> \o split(SubSeq(s, p + 1, Len(s)))

RECURSIVE join(_)
\* Array.prototype.join(' ')
join(parts) ==
  IF parts = <<>> THEN <<>>
  ELSE IF Len(parts) = 1 THEN parts[1]
  ELSE parts[1] \o <<" ">> \o join(Tail(parts))

IsSpace(c) == c = " "

\* name stands in s from 1-based position p on, and what follows is not
\* a non-space character: the tail  className(?!\S)  of the pattern
NameAt(s, p, name) ==
  /\ p + Len(name) - 1 <= Len(s)
  /\ SubSeq(s, p, p + Len(name) - 1) = name
  /\ (p + Len(name) <= Len(s) => IsSpace(s[p + Len(name)]))

\* the pattern (?:^|\s)className(?!\S) matches starting at 0-based offset q
MatchesAt(s, q, name) ==
  \/ q = 0 /\ NameAt(s, 1, name)
  \/ q + 1 <= Len(s) /\ IsSpace(s[q + 1]) /\ NameAt(s, q + 2, name)

\* length of the match at offset q: the ^ alternative is tried first
MatchLen(s, q, name) ==
  IF q = 0 /\ NameAt(s, 1, name) THEN Len(name) ELSE Len(name) + 1

HasMatch(s, name) == \E q \in 0..Len(s) : MatchesAt(s, q, name)

FirstMatch(s, name) ==
  CHOOSE q \in 0..Len(s) :
    MatchesAt(s, q, name) /\ \A r \in 0..(q - 1) : ~MatchesAt(s, r, name)

\* s.replace(regex, ''): the leftmost match is cut out, once
regexReplace(s, name) ==
  IF ~HasMatch(s, name) THEN s
  ELSE LET q == FirstMatch(s, name)
           n == MatchLen(s, q, name)
       IN SubSeq(s, 1, q) \o SubSeq(s, q + n + 1, Len(s))

\* s.match(regex) || false
regexMatch(s, name) == IF HasMatch(s, name) THEN MatchArray ELSE False

-----------------------------------------------------------------------------
(* The wrapper object: its own properties.  The prototype defines no       *)
(* length and no indexed entry, so a wrapper has them only if the          *)
(* constructor assigns them.                                               *)

StyleProps == {"display", "color"}
AttrNames == {"title", "data-x"}

\* this[n], 0-based; a property that was never assigned reads undefined
Index(w, n) == IF n + 1 \in DOMAIN w.items THEN w.items[n + 1] ELSE Undefined

\* n < this.length; a comparison with undefined is false
Lt(n, w) == w.lengthSet /\ n < w.length

\* this.length >= 1
LengthGe1(w) == w.lengthSet /\ w.length >= 1

\* document.onreadystatechange as ready installs it, closing over closure
Handler(closure) == [t |-> "function", v |-> <<"onreadystatechange">> \o closure.v]

\* ready, were it to keep a handler already installed
readyKeepsFirst(closure, handler) ==
  IF typeof(closure) # "function" THEN handler
  ELSE IF typeof(handler) = "function" THEN handler
  ELSE Handler(closure)

\* ready(closure): the handler slot afterwards
ready(closure, handler) ==
  IF typeof(closure) # "function" THEN handler ELSE Handler(closure)

\* the local _matches the constructor computes for selector
resolve(selector, hasQSA) ==
  IF typeof(selector) = "object" THEN <<selector>>
  ELSE IF typeof(selector) = "function" THEN <<>>
  ELSE IF typeof(selector) = "string" THEN
    IF hasQSA THEN querySelectorAll(selector.v)
    ELSE IF indexOfIsZero(selector.v, "#")
         THEN <<getElementById(replaceFirst(selector.v, "#"))>>
         ELSE <<getElementsByTagName(selector.v)>>
  ELSE <<>>

\* new simpleDOMEngine(selector): the wrapper built, the local _matches
\* (which no statement copies into the wrapper) and the handler slot
simpleDOMEngine(selector, hasQSA, handler) ==
  [w |-> [raw_selector |-> selector, lengthSet |-> FALSE, length |-> 0, items |-> <<>>],
   matches |-> resolve(selector, hasQSA),
   handler |-> IF typeof(selector) = "function" THEN ready(selector, handler) ELSE handler]

\* one call of a user callback
Call(fn, receiver, args) == [fn |-> fn, this |-> receiver, args |-> args]

RECURSIVE eachLoop(_, _, _)
eachLoop(w, n, closure) ==
  IF ~Lt(n, w) THEN <<>>
  ELSE <<Call(closure, Index(w, n), <<n>>)>> \o eachLoop(w, n + 1, closure)

\* each(closure): the return value and the calls made, in order
each(w, closure) ==
  IF typeof(closure) # "function" THEN [ret |-> False, calls |-> <<>>]
  ELSE [ret |-> This, calls |-> eachLoop(w, 0, closure)]

\* getClasses(elem), given elem.className
getClasses(cn) == IF cn # <<>> THEN split(cn) ELSE <<>>

RECURSIVE addClassLoop(_, _, _, _)
addClassLoop(w, n, name, cls) ==
  IF ~Lt(n, w) THEN [ret |-> This, className |-> cls]
  ELSE IF ~IsElement(Index(w, n)) THEN [ret |-> Throw("TypeError"), className |-> cls]
  ELSE LET e == ElemOf(Index(w, n))
       IN addClassLoop(w, n + 1, name,
            [cls EXCEPT ![e] = join(Append(getClasses(cls[e]), name))])

addClass(w, name, cls) == addClassLoop(w, 0, name, cls)

RECURSIVE removeClassLoop(_, _, _, _)
removeClassLoop(w, n, name, cls) ==
  IF ~Lt(n, w) THEN [ret |-> This, className |-> cls]
  ELSE IF ~IsElement(Index(w, n)) THEN [ret |-> Throw("TypeError"), className |-> cls]
  ELSE LET e == ElemOf(Index(w, n))
       IN removeClassLoop(w, n + 1, name, [cls EXCEPT ![e] = regexReplace(cls[e], name)])

removeClass(w, name, cls) == removeClassLoop(w, 0, name, cls)

hasClass(w, name, cls) ==
  IF LengthGe1(w)
  THEN IF ~IsElement(Index(w, 0)) THEN Throw("TypeError")
       ELSE regexMatch(cls[ElemOf(Index(w, 0))], name)
  ELSE False

RECURSIVE cssLoop(_, _, _, _, _)
cssLoop(w, n, att, val, st) ==
  IF ~Lt(n, w) THEN [ret |-> This, style |-> st]
  ELSE IF ~IsElement(Index(w, n)) THEN [ret |-> Throw("TypeError"), style |-> st]
  ELSE LET e == ElemOf(Index(w, n))
       IN cssLoop(w, n + 1, att, val, [st EXCEPT ![e][att] = val])

css(w, att, val, st) == cssLoop(w, 0, att, val, st)

\* hide and show return this after css returns; an exception of css passes
hide(w, st) == css(w, "display", "none", st)

show(w, st) == css(w, "display", "block", st)

\* attr(attr, value) on a host whose elements expose hasAttribute.
\* at[e][a] is the attribute's value, Null when the element lacks it.
\* valBinding is what the free identifier val of line 258 refers to:
\* Undefined when no such global is declared (a ReferenceError), else its
\* value.
attr(w, a, value, at, valBinding) ==
  LET this0 == Index(w, 0)
  IN IF value = Undefined
     THEN IF ~IsElement(this0) THEN [ret |-> Throw("TypeError"), attrs |-> at]
          ELSE [ret |-> at[ElemOf(this0)][a], attrs |-> at]
     ELSE IF this0 = Undefined \/ this0 = Null
          THEN [ret |-> Throw("TypeError"), attrs |-> at]
     ELSE IF ~IsElement(this0)
          THEN [ret |-> IF valBinding = Undefined THEN Throw("ReferenceError")
                        ELSE Throw("TypeError"),
                attrs |-> at]
     ELSE LET e == ElemOf(this0)
          IN IF at[e][a] # Null
             THEN IF value = Str(<<>>)
                  THEN [ret |-> This, attrs |-> [at EXCEPT ![e][a] = Null]]
                  ELSE [ret |-> This, attrs |-> [at EXCEPT ![e][a] = value]]
             ELSE IF valBinding = Undefined
                  THEN [ret |-> Throw("ReferenceError"), attrs |-> at]
                  ELSE [ret |-> This, attrs |-> [at EXCEPT ![e][a] = valBinding]]

\* the factory, window.simpleDOM after loading
Factory == Fn("simpleDOM")

\* noConflict, were it to restore window.$ without looking at it
noConflictAlways(dollarV, simpleDOMV, savedV) ==
  [dollar |-> savedV, ret |-> simpleDOMV]

\* noConflict(): window.$ afterwards and the value returned
noConflict(dollarV, simpleDOMV, savedV) ==
  [dollar |-> IF dollarV = simpleDOMV THEN savedV ELSE dollarV,
   ret |-> simpleDOMV]

\* the installed state-change handler runs: the calls it makes
runHandler(handler, state) ==
  IF typeof(handler) # "function" THEN <<>>
  ELSE IF state = "complete" \/ state = "loaded"
       THEN <<Call([t |-> "function", v |-> Tail(handler.v)], Undefined, <<>>)>>
       ELSE <<>>

-----------------------------------------------------------------------------
(* State *)

VARIABLES
  loaded,             \* the library's script has run
  dollar,             \* window.$
  windowSimpleDOM,    \* window.simpleDOM
  saved,              \* _$, the library's copy of window.$ taken at load
  hasQSA,             \* 'querySelectorAll' in document
  onreadystatechange, \* window.document.onreadystatechange
  readyState,         \* window.document.readyState
  className,          \* className of each element
  style,              \* inline style of each element
  attrs,              \* attributes of each element, Null when lacking
  w,                  \* the wrapper the caller holds
  matches,            \* the local _matches of the construction of w
  op,                 \* the operation that ran last, with its arguments
  ret,                \* what it returned or threw
  fired,              \* the user callbacks it invoked, in order
  dollarBeforeLoad,   \* history: window.$ before the script ran
  lastReg,            \* history: the callable passed last to a registration
  displaced           \* history: a callable registered before lastReg

vars ==
  <<loaded, dollar, windowSimpleDOM, saved, hasQSA, onreadystatechange,
    readyState, className, style, attrs, w, matches, op, ret, fired,
    dollarBeforeLoad, lastReg, displaced>>

globals == <<loaded, dollar, windowSimpleDOM, saved, dollarBeforeLoad>>
readiness == <<onreadystatechange, lastReg, displaced>>
dom == <<className, style, attrs>>
wrapper == <<w, matches>>

-----------------------------------------------------------------------------
(* Inputs *)

Fns == {Fn(ToString(i)) : i \in 1..NumFns}
NonCallables == {Undefined}
SelectorStrings ==
  {Str(<<"*">>), Str(<<"div">>), Str(<<"#", "x">>), Str(<<"#", "missing">>)}
Selectors ==
  SelectorStrings \cup {Elem("e1"), Elem("e2")} \cup Fns \cup {Undefined}
ClassNames == {<<"a">>, <<"b">>}
AttrValues == {Str(<<>>), Str(<<"1">>)}
\* what the identifier val may be bound to in the global scope
ValBindings == {Undefined, Str(<<"g">>)}
ReadyStates == {"interactive", "complete", "loaded"}
\* occupants of window.$ other than this library
OtherLibs == {Fn("other")}

\* the document the host holds when the script runs
Document ==
  [className |-> [e \in Elements |->
     CASE e = "e1" -> <<>> [] e = "e2" -> <<"a">> [] OTHER -> <<"a", "b", " ", "a">>],
   style |-> [e \in Elements |-> [p \in StyleProps |->
     IF p = "color" THEN ""
     ELSE CASE e = "e1" -> "inline" [] e = "e2" -> "" [] OTHER -> "none"]],
   attrs |-> [e \in Elements |-> [a \in AttrNames |->
     CASE e = "e2" /\ a = "title" -> Str(<<"t">>)
       [] e = "e3" /\ a = "data-x" -> Str(<<"1">>)
       [] OTHER -> Null]]]

Op(name, args) == [name |-> name, args |-> args]

-----------------------------------------------------------------------------
(* Behaviour *)

Init ==
  /\ loaded = FALSE
  /\ dollar \in {Undefined, Fn("jQuery")}
  /\ windowSimpleDOM = Undefined
  /\ saved = Undefined
  /\ dollarBeforeLoad = dollar
  /\ hasQSA \in BOOLEAN
  /\ onreadystatechange = Null
  /\ readyState = "loading"
  /\ className = Document.className
  /\ style = Document.style
  /\ attrs = Document.attrs
  /\ w = [raw_selector |-> Undefined, lengthSet |-> FALSE, length |-> 0, items |-> <<>>]
  /\ matches = <<>>
  /\ op = Op("none", <<>>)
  /\ ret = Undefined
  /\ fired = <<>>
  /\ lastReg = Undefined
  /\ displaced = Undefined

\* the history of registrations, from the argument of a registration
Registered(closure) ==
  /\ lastReg' = IF typeof(closure) = "function" THEN closure ELSE lastReg
  /\ displaced' = IF typeof(closure) = "function" /\ lastReg # Undefined /\ lastReg # closure
                  THEN lastReg ELSE displaced

\* the script runs: lines 14, 267 and 268
Load ==
  /\ ~loaded
  /\ loaded' = TRUE
  /\ saved' = dollar
  /\ windowSimpleDOM' = Factory
  /\ dollar' = windowSimpleDOM'
  /\ op' = Op("load", <<>>)
  /\ ret' = Undefined
  /\ fired' = <<>>
  /\ UNCHANGED <<dollarBeforeLoad, hasQSA, readyState, readiness, dom, wrapper>>

NoConflict ==
  /\ loaded
  /\ LET r == noConflict(dollar, windowSimpleDOM, saved)
     IN /\ dollar' = r.dollar
        /\ ret' = r.ret
  /\ op' = Op("noConflict", <<>>)
  /\ fired' = <<>>
  /\ UNCHANGED <<loaded, windowSimpleDOM, saved, dollarBeforeLoad, hasQSA, readyState,
                 readiness, dom, wrapper>>

\* user code rebinds window.$ to another library
SetDollar(x) ==
  /\ loaded
  /\ dollar' = x
  /\ op' = Op("setDollar", <<x>>)
  /\ ret' = Undefined
  /\ fired' = <<>>
  /\ UNCHANGED <<loaded, windowSimpleDOM, saved, dollarBeforeLoad, hasQSA, readyState,
                 readiness, dom, wrapper>>

\* simpleDOM(selector)
Construct(selector) ==
  /\ loaded
  /\ LET r == simpleDOMEngine(selector, hasQSA, onreadystatechange)
     IN /\ w' = r.w
        /\ matches' = r.matches
        /\ onreadystatechange' = r.handler
  /\ Registered(selector)
  /\ op' = Op("simpleDOM", <<selector>>)
  /\ ret' = NewWrapper
  /\ fired' = <<>>
  /\ UNCHANGED <<globals, hasQSA, readyState, dom>>

\* w.get(k), the caller keeping the wrapper returned
Get(k) ==
  /\ loaded
  /\ LET r == simpleDOMEngine(Index(w, k), hasQSA, onreadystatechange)
     IN /\ w' = r.w
        /\ matches' = r.matches
        /\ onreadystatechange' = r.handler
  /\ Registered(Index(w, k))
  /\ op' = Op("get", <<Str(<<ToString(k)>>)>>)
  /\ ret' = NewWrapper
  /\ fired' = <<>>
  /\ UNCHANGED <<globals, hasQSA, readyState, dom>>

Each(closure) ==
  /\ loaded
  /\ LET r == each(w, closure)
     IN /\ ret' = r.ret
        /\ fired' = r.calls
  /\ op' = Op("each", <<closure>>)
  /\ UNCHANGED <<globals, hasQSA, readyState, readiness, dom, wrapper>>

Ready(closure) ==
  /\ loaded
  /\ onreadystatechange' = ready(closure, onreadystatechange)
  /\ Registered(closure)
  /\ op' = Op("ready", <<closure>>)
  /\ ret' = Undefined
  /\ fired' = <<>>
  /\ UNCHANGED <<globals, hasQSA, readyState, dom, wrapper>>

\* the host changes its loading state and dispatches the state-change event
StateChange(state) ==
  /\ readyState' = state
  /\ fired' = runHandler(onreadystatechange, state)
  /\ op' = Op("statechange", <<Str(<<state>>)>>)
  /\ ret' = Undefined
  /\ UNCHANGED <<globals, hasQSA, readiness, dom, wrapper>>

AddClass(name) ==
  /\ loaded
  /\ \A i \in DOMAIN w.items :
       IsElement(w.items[i]) =>
         Len(className[ElemOf(w.items[i])]) + 1 + Len(name) <= MaxClassLen
  /\ LET r == addClass(w, name, className)
     IN /\ ret' = r.ret
        /\ className' = r.className
  /\ op' = Op("addClass", <<Str(name)>>)
  /\ fired' = <<>>
  /\ UNCHANGED <<globals, hasQSA, readyState, readiness, style, attrs, wrapper>>

RemoveClass(name) ==
  /\ loaded
  /\ LET r == removeClass(w, name, className)
     IN /\ ret' = r.ret
        /\ className' = r.className
  /\ op' = Op("removeClass", <<Str(name)>>)
  /\ fired' = <<>>
  /\ UNCHANGED <<globals, hasQSA, readyState, readiness, style, attrs, wrapper>>

HasClass(name) ==
  /\ loaded
  /\ ret' = hasClass(w, name, className)
  /\ op' = Op("hasClass", <<Str(name)>>)
  /\ fired' = <<>>
  /\ UNCHANGED <<globals, hasQSA, readyState, readiness, dom, wrapper>>

Css(att, val) ==
  /\ loaded
  /\ LET r == css(w, att, val, style)
     IN /\ ret' = r.ret
        /\ style' = r.style
  /\ op' = Op("css", <<Str(<<att>>), Str(<<val>>)>>)
  /\ fired' = <<>>
  /\ UNCHANGED <<globals, hasQSA, readyState, readiness, className, attrs, wrapper>>

Hide ==
  /\ loaded
  /\ LET r == hide(w, style)
     IN /\ ret' = r.ret
        /\ style' = r.style
  /\ op' = Op("hide", <<>>)
  /\ fired' = <<>>
  /\ UNCHANGED <<globals, hasQSA, readyState, readiness, className, attrs, wrapper>>

Show ==
  /\ loaded
  /\ LET r == show(w, style)
     IN /\ ret' = r.ret
        /\ style' = r.style
  /\ op' = Op("show", <<>>)
  /\ fired' = <<>>
  /\ UNCHANGED <<globals, hasQSA, readyState, readiness, className, attrs, wrapper>>

\* attr(a): the read; the second parameter is undefined and val is not used
AttrGet(a) ==
  /\ loaded
  /\ LET r == attr(w, a, Undefined, attrs, Undefined)
     IN /\ ret' = r.ret
        /\ attrs' = r.attrs
  /\ op' = Op("attr", <<Str(<<a>>)>>)
  /\ fired' = <<>>
  /\ UNCHANGED <<globals, hasQSA, readyState, readiness, className, style, wrapper>>

\* attr(a, value): the write
AttrSet(a, value) ==
  /\ loaded
  /\ \E vb \in ValBindings :
       LET r == attr(w, a, value, attrs, vb)
       IN /\ ret' = r.ret
          /\ attrs' = r.attrs
  /\ op' = Op("attr", <<Str(<<a>>), value>>)
  /\ fired' = <<>>
  /\ UNCHANGED <<globals, hasQSA, readyState, readiness, className, style, wrapper>>

Next ==
  \/ Load
  \/ NoConflict
  \/ \E x \in OtherLibs : SetDollar(x)
  \/ \E selector \in Selectors : Construct(selector)
  \/ \E k \in {0} : Get(k)
  \/ \E closure \in Fns \cup NonCallables : Each(closure)
  \/ \E closure \in Fns \cup NonCallables : Ready(closure)
  \/ \E state \in ReadyStates : StateChange(state)
  \/ \E name \in ClassNames : AddClass(name)
  \/ \E name \in ClassNames : RemoveClass(name)
  \/ \E name \in ClassNames : HasClass(name)
  \/ \E att \in StyleProps : Css(att, "red")
  \/ Hide
  \/ Show
  \/ \E a \in AttrNames : AttrGet(a)
  \/ \E a \in AttrNames, value \in AttrValues : AttrSet(a, value)

Spec == Init /\ [][Next]_vars

-----------------------------------------------------------------------------
(* What the claims speak of *)

\* the wrapper was built from a selector string on a host with native
\* query-all, or from an element reference
HeldKnown ==
  \/ typeof(w.raw_selector) = "string" /\ hasQSA
  \/ IsElement(w.raw_selector)

\* the elements such a wrapper is to hold, in order
Held ==
  IF typeof(w.raw_selector) = "string" THEN querySelectorAll(w.raw_selector.v)
  ELSE <<w.raw_selector>>

\* name stands in s at position p as a whole whitespace-delimited token
TokenAt(s, p, name) ==
  /\ p >= 1
  /\ p + Len(name) - 1 <= Len(s)
  /\ \A i \in 1..Len(name) : s[p + i - 1] = name[i]
  /\ (p > 1 => s[p - 1] = " ")
  /\ (p + Len(name) <= Len(s) => s[p + Len(name)] = " ")

HasToken(s, name) == \E p \in 1..Len(s) : TokenAt(s, p, name)

RECURSIVE Words(_, _)
\* the whitespace-delimited tokens of s in order, cur being the token begun
Words(s, cur) ==
  IF s = <<>> THEN (IF cur = <<>> THEN <<>> ELSE <<cur>>)
  ELSE IF Head(s) = " "
       THEN (IF cur = <<>> THEN <<>> ELSE <<cur>>) \o Words(Tail(s), <<>>)
       ELSE Words(Tail(s), Append(cur, Head(s)))

RECURSIVE Without(_, _)
\* the sequence ws with every entry equal to x left out
Without(ws, x) ==
  IF ws = <<>> THEN <<>>
  ELSE IF Head(ws) = x THEN Without(Tail(ws), x)
  ELSE <<Head(ws)>> \o Without(Tail(ws), x)

-----------------------------------------------------------------------------
(* Claims *)

\* C1: a wrapper built from a selector string that matches N elements, on
\* a host with native query-all, has length N and holds exactly the matched
\* elements at indices 0..N-1 in document order.
C1_LengthIsMatchCount ==
  (op.name = "simpleDOM" /\ typeof(op.args[1]) = "string" /\ hasQSA) =>
    LET m == querySelectorAll(op.args[1].v)
    IN /\ w.lengthSet
       /\ w.length = Len(m)
       /\ \A i \in 0..(Len(m) - 1) : Index(w, i) = m[i + 1]

\* C2: on a wrapper built from a selector matching k elements, each(fn)
\* with a callable fn calls fn exactly k times in order, the i-th call with
\* argument i and the i-th matched element as receiver, and returns the
\* wrapper.
C2_EachCallsPerElement ==
  (op.name = "each" /\ typeof(op.args[1]) = "function"
     /\ typeof(w.raw_selector) = "string" /\ hasQSA) =>
    LET m == querySelectorAll(w.raw_selector.v)
    IN /\ ret = This
       /\ Len(fired) = Len(m)
       /\ \A i \in 1..Len(m) : fired[i] = Call(op.args[1], m[i], <<i - 1>>)

\* one step of attr on a wrapper over an element, as C3 describes it
C3Step ==
  (op'.name = "attr" /\ HeldKnown /\ Held # <<>>) =>
    LET e == ElemOf(Held[1])
        a == op'.args[1].v[1]
    IN /\ (Len(op'.args) = 2 /\ op'.args[2] # Str(<<>>) /\ attrs[e][a] = Null) =>
            (ret' = This /\ attrs'[e][a] = op'.args[2])
       /\ (Len(op'.args) = 2 /\ op'.args[2] = Str(<<>>) /\ attrs[e][a] # Null) =>
            (ret' = This /\ attrs'[e][a] = Null)
       /\ (Len(op'.args) = 1) => (ret' = attrs[e][a])

\* C3: on a wrapper over an element lacking attribute a, attr(a, v) with a
\* non-empty v completes without error, returns the wrapper and leaves the
\* attribute with value v; attr(a, "") on an element having a removes it and
\* returns the wrapper; attr(a) returns the attribute's value, null when the
\* element lacks it.
C3_AttrCreateRemoveRead == [][C3Step]_vars

\* C4: hasClass(name) is truthy exactly when the wrapper holds at least one
\* element and name is a whitespace-delimited token of the class attribute
\* of the first held element.
C4_HasClassFirstElement ==
  (op.name = "hasClass" /\ HeldKnown) =>
    (Truthy(ret) <=>
       (Held # <<>> /\ HasToken(className[ElemOf(Held[1])], op.args[1].v)))

\* one step of addClass or removeClass on a held element, as C5 describes it
C5Step ==
  HeldKnown =>
    \A i \in DOMAIN Held :
      LET e == ElemOf(Held[i])
      IN /\ (op'.name = "addClass" /\ className[e] = <<>>) =>
              className'[e] = op'.args[1].v
         /\ (op'.name = "removeClass" /\ className[e] = op'.args[1].v) =>
              className'[e] = <<>>

\* C5: on an element whose class attribute is empty, addClass(name) leaves
\* the class attribute exactly name, and removeClass(name) then leaves it
\* empty.
C5_AddThenRemoveClass == [][C5Step]_vars

\* one step, as C6 describes it
C6Step ==
  /\ (op'.name = "statechange") =>
       fired' = IF readyState' \in {"complete", "loaded"} /\ lastReg # Undefined
                THEN <<Call(lastReg, Undefined, <<>>)>>
                ELSE <<>>
  /\ (op'.name = "ready" /\ typeof(op'.args[1]) # "function") =>
       onreadystatechange' = onreadystatechange

\* C6: each state-change event invokes only the callable registered last
\* (by ready or by passing a function as selector), once and with no
\* arguments, when the loading state is "complete" or "loaded", and invokes
\* nothing in any other state; ready with a non-callable argument leaves the
\* handler as it was.
C6_ReadySingleSlot == [][C6Step]_vars

\* C6, reached: an event fires the callable registered last after it
\* displaced another one
C6_Witness ==
  /\ op.name = "statechange"
  /\ displaced # Undefined
  /\ fired = <<Call(lastReg, Undefined, <<>>)>>

\* C7: on a host without native query-all the selector "#missing" gives a
\* wrapper of length 0, and attr(name) on it, as on any empty set, returns
\* a value instead of raising an error.
C7_MissingIdFallback ==
  /\ (~hasQSA /\ w.raw_selector = Str(<<"#", "missing">>)) =>
       /\ w.lengthSet /\ w.length = 0
       /\ (op.name = "attr" /\ Len(op.args) = 1) => ~Thrown(ret)
  /\ (op.name = "attr" /\ Len(op.args) = 1 /\ HeldKnown /\ Held = <<>>) => ~Thrown(ret)

\* one step of hide or show, as C8 describes it
C8Step ==
  (op'.name \in {"hide", "show"} /\ typeof(w.raw_selector) = "string" /\ hasQSA
     /\ Held # <<>>) =>
    /\ ret' = This
    /\ \A i \in DOMAIN Held :
         LET e == ElemOf(Held[i])
         IN style'[e] = [style[e] EXCEPT !["display"] =
                           IF op'.name = "hide" THEN "none" ELSE "block"]

\* C8: on a wrapper built from a selector matching one or more elements,
\* hide() leaves the display style of every matched element "none" and
\* show() leaves it "block", whatever it was; both return the wrapper and
\* change no other style property.
C8_HideShowDisplay == [][C8Step]_vars

\* one step, as C9 describes it
C9Step ==
  /\ (op'.name = "load") => (dollar' = Factory /\ windowSimpleDOM' = Factory)
  /\ (op'.name = "noConflict") =>
       /\ ret' = Factory
       /\ windowSimpleDOM' = windowSimpleDOM
       /\ (dollar = Factory) => (dollar' = dollarBeforeLoad)
       /\ (op.name = "noConflict") => (dollar' = dollar)
       /\ (dollar \in OtherLibs) => (dollar' = dollar)

\* C9: loading binds the factory to simpleDOM and to $; noConflict() gives
\* $ back the value it had before loading and returns the factory; a
\* further noConflict() returns the factory and leaves $ alone; noConflict
\* never changes simpleDOM, and leaves a $ that user code rebound to
\* something else as the user set it.
C9_NoConflict == [][C9Step]_vars

\* C9, reached: noConflict has put another library back on $
C9_Witness ==
  /\ op.name = "noConflict"
  /\ ret = Factory
  /\ dollarBeforeLoad = Fn("jQuery")
  /\ dollar = dollarBeforeLoad

\* one step of removeClass, as C10 describes it
C10Step ==
  (op'.name = "removeClass" /\ HeldKnown) =>
    \A i \in DOMAIN Held :
      LET e == ElemOf(Held[i])
          name == op'.args[1].v
      IN /\ Words(className'[e], <<>>) = Without(Words(className[e], <<>>), name)
         /\ ~HasToken(className'[e], name)

\* C10: removeClass(name) removes from every matched element's class
\* attribute the occurrences of name that stand as a whole token and keeps
\* every other token, in order; afterwards name is no token of it.
C10_RemoveClassWholeToken == [][C10Step]_vars

====
